---- MODULE Spec2Model ----
(***************************************************************************)
(* The news card manager (src/news_manager/news_card_manager.py) and the   *)
(* portal manager (src/portal_manager.py) as state machines.               *)
(*                                                                         *)
(* SpecCards   : request workers running the card handlers against the     *)
(*               flock-guarded JSON file data/news.json.                   *)
(* SpecPublish : the two deploy entry points driving git.                  *)
(*                                                                         *)
(* The backing file is modelled by what json.load can make of it: a        *)
(* complete document (kind "doc"), a file of length 0 (kind "empty") or    *)
(* bytes that are not one document (kind "garbled"), together with its     *)
(* length in bytes, which decides what an overwrite from offset 0 leaves.  *)
(***************************************************************************)
EXTENDS Integers, Sequences, FiniteSets, TLC

\* ------------------------------------------------------------------ bounds

\* Requests the workers may begin in one behaviour.
MaxRequests == 2

\* I/O failures (disk full) the environment may inject into json.dump.
MaxIOFail == 1

\* Publish calls (either entry point) in one behaviour.
MaxPublish == 2

\* Changes to the working tree (cards saved, pages created) in one behaviour.
MaxEdits == 2

\* Cards in a collection handed to generate_news_html.
MaxCards == 2

\* Visit requests the workers may begin in one behaviour.
MaxVisits == 3

\* Calendar days a behaviour may span.
MaxDays == 2

\* ----------------------------------------------------------- request data

Workers == {"A", "B"}

Max(a, b) == IF a >= b THEN a ELSE b

\* datetime.now() as the handlers use it: the strftime parts and the numbers.
Nows ==
    { [ys |-> "2026", ms |-> "01", ds |-> "01",
       year |-> 2026, month |-> 1, day |-> 1, hms |-> "09:00:00"] }

\* now.strftime("%Y-%m-%d")
DateStr(now) == now.ys \o "-" \o now.ms \o "-" \o now.ds

\* date_str.replace('-', '')
DateCompact(now) == now.ys \o now.ms \o now.ds

\* the f-string of now.year, now.month, now.day (line 129), kept as its three numbers
DateDisplay(now) == <<now.year, now.month, now.day>>

\* now.isoformat(timespec="seconds")
IsoStamp(now) == DateStr(now) \o "T" \o now.hms

\* A JSON request body: a function from the keys present to strings.
NoKeys == [k \in {} |-> ""]

Has(body, k) == k \in DOMAIN body

\* body.get(k): falsy (absent or "") or the value
Truthy(body, k) == Has(body, k) /\ body[k] # ""

CreateBodies ==
    { ("title" :> "T") @@ ("content" :> "C"),
      ("title" :> "T") @@ ("content" :> "C") @@ ("slug" :> "item-2"),
      ("title" :> "") @@ ("content" :> "C"),
      ("title" :> "T") }

UpdateBodies ==
    { NoKeys,
      ("title" :> "X"),
      ("content" :> "") @@ ("id" :> "evil") @@ ("visible" :> "false")
          @@ ("date" :> "1999-12-31") @@ ("date_display" :> "1999")
          @@ ("created_at" :> "1999-12-31T00:00:00") }

\* The card ids requests are addressed to.
TargetIds == { "news-20260101-item", "news-20260101-item-2", "ghost" }

\* ------------------------------------------------------------------ cards

SeedCard ==
    [ id |-> "news-20260101-item", title |-> "T0", content |-> "C0",
      date |-> "2026-01-01", date_display |-> <<2026, 1, 1>>,
      visible |-> TRUE, created_at |-> "2026-01-01T08:00:00" ]

\* The pre-seeded collections a run may start from.
Seeds == { <<>>, <<SeedCard>> }

Ids(cards) == { cards[i].id : i \in DOMAIN cards }

DistinctIds(cards) ==
    \A i, j \in DOMAIN cards : i # j => cards[i].id # cards[j].id

\* --------------------------------------------------- the document on disk

\* json.dump(data, f, ensure_ascii=False, indent=4): bytes of {"cards": []}
EmptyDocLen == 19
\* bytes of the document around a non-empty card list
DocFrameLen == 23
\* bytes of one card besides its values (keys, quotes, indentation, commas)
CardFrameLen == 205

Digits(n) == IF n < 10 THEN 1 ELSE IF n < 100 THEN 2 ELSE IF n < 1000 THEN 3 ELSE 4

\* UTF-8 bytes of date_display: the digits and three 3-byte characters
DisplayLen(d) == Digits(d[1]) + Digits(d[2]) + Digits(d[3]) + 9

CardLen(c) ==
    CardFrameLen + Len(c.id) + Len(c.title) + Len(c.content) + Len(c.date)
        + DisplayLen(c.date_display) + Len(c.created_at)
        + (IF c.visible THEN 4 ELSE 5)

RECURSIVE SumCardLen(_)
SumCardLen(cards) ==
    IF cards = <<>> THEN 0 ELSE CardLen(Head(cards)) + SumCardLen(Tail(cards))

DocLen(cards) ==
    IF cards = <<>> THEN EmptyDocLen ELSE DocFrameLen + SumCardLen(cards)

DocFile(cards) == [kind |-> "doc", cards |-> cards, len |-> DocLen(cards)]

\* A write of the whole document from offset 0 into a file that the writer's
\* own open() truncated earlier: bytes another writer put there since stay
\* behind the document when they reach further than it does.
Overwrite(f, cards) ==
    IF f.len <= DocLen(cards)
    THEN DocFile(cards)
    ELSE [kind |-> "garbled", cards |-> <<>>, len |-> f.len]

\* variant for sensitivity: the file opened "r+", which keeps its bytes
KeepsBytes(f) == f

\* open(DATA_FILE, "w"): O_TRUNC, whatever the file held
Truncate(f) == [kind |-> "empty", cards |-> <<>>, len |-> 0]

\* data/news.json not there (a checkout without the data directory's file)
NoCardFile == [kind |-> "missing", cards |-> <<>>, len |-> 0]

\* A write that failed part way: a proper prefix of the document is on disk.
PartialWrite(f, cards) ==
    [kind |-> "garbled", cards |-> <<>>, len |-> Max(f.len, DocLen(cards) \div 2)]

\* ------------------------------------------------------------ card state

VARIABLES
    file,       \* data/news.json: [kind, cards, len]
    lockSH,     \* workers holding flock LOCK_SH on it
    lockEX,     \* workers holding flock LOCK_EX on it (at most one)
    pc,         \* each worker's position in its handler
    req,        \* each worker's request: [op, id, body, now, is_json, auth]
    data,       \* each worker's in-memory data["cards"]
    orig,       \* what the worker's load_cards returned (history)
    flushed,    \* whether json.dump's bytes have left the worker's buffer
    resp,       \* each worker's last response: [status, cards, to]
    nReq,       \* requests begun
    ioFails,    \* I/O failures injected
    initIds,    \* ids of the pre-seeded collection (history)
    assigned,   \* ids create_card has built (history)
    ver,        \* document writes that reached the file (history)
    base,       \* ver when the worker read (history)
    openVer,    \* ver when the worker opened the file for writing (history)
    wrNo        \* ver of the worker's own write, 0 before it (history)

cardVars ==
    <<file, lockSH, lockEX, pc, req, data, orig, flushed, resp, nReq, ioFails,
      initIds, assigned, ver, base, openVer, wrNo>>

\* The repository the two deploy entry points drive. Contents are followed by
\* revision: the collection file's revision counts the saves made to it, the
\* artifact's revision is the collection revision it was rendered from.
VARIABLES
    cardsRev,       \* data/news.json in the working tree
    htmlRev,        \* news.html in the working tree (-1: a partly written file)
    index,          \* the git index: [html, json, other]
    head,           \* the last local commit: [html, json]
    localCommits,   \* commits in the local repository
    remoteCommits,  \* commits the remote has
    untracked,      \* untracked files exist in the working tree
    dirty,          \* tracked files besides the two are modified, not staged
    ppc,            \* position of the publish call
    entry,          \* "news" (deploy) or "portal" (PortalManager.deploy)
    rendered,       \* the collection revision deploy read
    msg,            \* the commit message
    ran,            \* pipeline stages the call has started, in order
    okStages,       \* stages of the call that succeeded
    nothingStaged,  \* git commit found nothing staged
    pushTries,      \* git push runs of the call
    commitsAtStart, \* localCommits when the call began
    failedAt,       \* the stage that failed, "none" if none did
    outcome,        \* what the caller gets: [status, body]
    nPub,           \* publish calls begun
    nEdits          \* working tree changes made

repoVars ==
    <<cardsRev, htmlRev, index, head, localCommits, remoteCommits, untracked, dirty>>

callVars ==
    <<entry, rendered, msg, ran, okStages, nothingStaged, pushTries,
      commitsAtStart, failedAt, outcome>>

pubVars == <<repoVars, callVars, ppc, nPub, nEdits>>

\* generate_news_html as a function run on a collection handed to it.
VARIABLES
    rcards,     \* the cards handed to generate_news_html
    page,       \* the articles of the page it returned, in order
    rpc         \* "input" before the call, "rendered" after it

pageVars == <<rcards, page, rpc>>

\* The visitor counter (src/visitor_counter/visitor_counter.py).
VARIABLES
    vfile,      \* data/visitors.json: [kind, doc, len]
    vlockSH,    \* workers holding flock LOCK_SH on it
    vlockEX,    \* workers holding flock LOCK_EX on it
    vpc,        \* each worker's position in record_visit
    vreq,       \* each worker's request: [client, today, cookie_id, visitor_id,
                \* last_visit, os, counted]
    vdata,      \* each worker's in-memory data
    vorig,      \* what the worker's load_data returned (history)
    vflushed,   \* whether json.dump's bytes have left the worker's buffer
    vresp,      \* each worker's last response: [status, counted, total, cookies]
    jar,        \* each client's cookies: [visitor_id, last_visit]
    clock,      \* the calendar day, counted from 1
    nVisits,    \* visit requests begun
    totals      \* the totals of the documents written to the file, in order (history)

visitVars ==
    <<vfile, vlockSH, vlockEX, vpc, vreq, vdata, vorig, vflushed, vresp, jar,
      clock, nVisits, totals>>

\* The admin's browser and the routes that are not card or deploy routes.
VARIABLES
    session     \* the browser's Flask session: a dict

authVars == <<session>>

vars == <<cardVars, pubVars, pageVars, visitVars, authVars>>

\* what the card routes leave alone
besideCards == <<pubVars, pageVars, visitVars, authVars>>

\* what the deploy entry points leave alone
besidePublish == <<cardVars, pageVars, visitVars, authVars>>

\* what the session routes leave alone
besideAuth == <<pubVars, pageVars, visitVars>>

\* -------------------------------------------------- the handlers' functions

\* variant for sensitivity: the keys only looked for, "" let through
CreateValidKeysPresent(body) == Has(body, "title") /\ Has(body, "content")

\* line 115 negated: body and body.get("title") and body.get("content")
CreateValid(body) == Truthy(body, "title") /\ Truthy(body, "content")

\* slug = body.get("slug", "item"); card_id = f"news-{...}-{slug}"
BaseId(body, now) ==
    "news-" \o DateCompact(now) \o "-"
        \o (IF Has(body, "slug") THEN body["slug"] ELSE "item")

\* the card dict create_card builds before it reads the collection
BuildCard(body, now) ==
    [ id |-> BaseId(body, now), title |-> body["title"], content |-> body["content"],
      date |-> DateStr(now), date_display |-> DateDisplay(now),
      visible |-> TRUE, created_at |-> IsoStamp(now) ]

\* variant for sensitivity: the while loop of lines 140-141 left out
ProbeSuffixNoLoop(card_id, existing, i) == i

\* i = 2; while f"{card_id}-{i}" in existing_ids: i += 1
RECURSIVE ProbeSuffix(_, _, _)
ProbeSuffix(card_id, existing, i) ==
    IF (card_id \o "-" \o ToString(i)) \in existing
    THEN ProbeSuffix(card_id, existing, i + 1)
    ELSE i

\* variant for sensitivity: the collision check of lines 138-142 left out
NewCardIdNoProbe(card_id, existing) == card_id

\* the id the new card gets among existing_ids
NewCardId(card_id, existing) ==
    IF card_id \in existing
    THEN card_id \o "-" \o ToString(ProbeSuffix(card_id, existing, 2))
    ELSE card_id

\* variant for sensitivity: data["cards"].append(card)
AppendCard(cards, card) ==
    cards \o <<[card EXCEPT !.id = NewCardId(card.id, Ids(cards))]>>

\* data["cards"].insert(0, card) with the id settled
InsertCard(cards, card) ==
    <<[card EXCEPT !.id = NewCardId(card.id, Ids(cards))]>> \o cards

\* variant for sensitivity: the loop falling back on the first card
FirstIndexOrHead(cards, id) ==
    IF id \in Ids(cards)
    THEN CHOOSE i \in DOMAIN cards :
            /\ cards[i].id = id
            /\ \A j \in DOMAIN cards : j < i => cards[j].id # id
    ELSE IF cards = <<>> THEN 0 ELSE 1

\* the first card the for loop finds with card["id"] == card_id, 0 if none
FirstIndex(cards, id) ==
    IF id \in Ids(cards)
    THEN CHOOSE i \in DOMAIN cards :
            /\ cards[i].id = id
            /\ \A j \in DOMAIN cards : j < i => cards[j].id # id
    ELSE 0

\* variant for sensitivity: card.update(body) for the keys a card has, id included
ApplyUpdateAnyKey(card, body) ==
    [card EXCEPT !.title = IF Has(body, "title") THEN body["title"] ELSE @,
                 !.content = IF Has(body, "content") THEN body["content"] ELSE @,
                 !.id = IF Has(body, "id") THEN body["id"] ELSE @]

\* variant for sensitivity: if body.get("title"): ..., which skips a field given as ""
ApplyUpdateTruthy(card, body) ==
    [card EXCEPT !.title = IF Truthy(body, "title") THEN body["title"] ELSE @,
                 !.content = IF Truthy(body, "content") THEN body["content"] ELSE @]

\* variant for sensitivity: a "date" key of the body applied as well
ApplyUpdateDated(card, body) ==
    [card EXCEPT !.title = IF Has(body, "title") THEN body["title"] ELSE @,
                 !.content = IF Has(body, "content") THEN body["content"] ELSE @,
                 !.date = IF Has(body, "date") THEN body["date"] ELSE @]

\* if "title" in body: ...; if "content" in body: ...
ApplyUpdate(card, body) ==
    [card EXCEPT !.title = IF Has(body, "title") THEN body["title"] ELSE @,
                 !.content = IF Has(body, "content") THEN body["content"] ELSE @]

\* variant for sensitivity: card["visible"] = False
HideCard(card) == [card EXCEPT !.visible = FALSE]

\* card["visible"] = not card["visible"]
FlipVisible(card) == [card EXCEPT !.visible = ~@]

\* [c for c in data["cards"] if c["id"] != card_id]
DeleteCards(cards, id) == SelectSeq(cards, LAMBDA c : c.id # id)

\* ---------------------------------------------------------------- session

ADMIN_HASH == "5fac9782738bc55eeb2688891075f9e37fb6779d5f31786acc0d259ec5b3a2e7"

\* the password ADMIN_HASH is the digest of
AdminPassword == "the admin password"

\* what the login form is sent with
Passwords == {"", "password", AdminPassword}

\* hashlib.sha256(password.encode("utf-8")).hexdigest()
Sha256Hex(password) ==
    CASE password = "" ->
            "e3b0c44298fc1c149afbf4c8996fb92427ae41e4649b934ca495991b7852b855"
      [] password = "password" ->
            "5e884898da28047151d0e56f8dc6292773603d0d6aabbdd62a11ef721d1542d8"
      [] password = AdminPassword -> ADMIN_HASH

\* the session of a browser that has not logged in, or after session.clear()
NoSession == [k \in {} |-> FALSE]

\* session.get("authenticated")
Authenticated(s) == "authenticated" \in DOMAIN s /\ s["authenticated"]

\* request.path.startswith("/api/"), the path given by its segments
StartsWithApi(path) == Len(path) >= 2 /\ path[1] = "api"

\* variant for sensitivity: the /api/ routes let through
login_requiredApiOpen(s, is_json, path) ==
    IF Authenticated(s) \/ StartsWithApi(path) THEN "call"
    ELSE IF is_json THEN "401"
    ELSE "redirect"

\* the decorator: call the route, answer 401, or redirect to the login page
login_required(s, is_json, path) ==
    IF Authenticated(s) THEN "call"
    ELSE IF is_json \/ StartsWithApi(path) THEN "401"
    ELSE "redirect"

\* ------------------------------------------------------------- requests

NoResp == [status |-> 0, cards |-> <<>>, to |-> ""]

Reply(w, status, cards) ==
    /\ resp' = [resp EXCEPT ![w] = [status |-> status, cards |-> cards, to |-> ""]]
    /\ pc' = [pc EXCEPT ![w] = "done"]

\* redirect(url_for(to)) / render_template(to)
Send(w, status, to) ==
    /\ resp' = [resp EXCEPT ![w] = [status |-> status, cards |-> <<>>, to |-> to]]
    /\ pc' = [pc EXCEPT ![w] = "done"]

\* A worker takes a request; its locals are those of a fresh call.
Start(w, r) ==
    /\ pc[w] \in {"idle", "done"}
    /\ nReq < MaxRequests
    /\ nReq' = nReq + 1
    /\ req' = [req EXCEPT ![w] = r]
    /\ data' = [data EXCEPT ![w] = <<>>]
    /\ orig' = [orig EXCEPT ![w] = <<>>]
    /\ flushed' = [flushed EXCEPT ![w] = FALSE]
    /\ base' = [base EXCEPT ![w] = 0]
    /\ openVer' = [openVer EXCEPT ![w] = 0]
    /\ wrNo' = [wrNo EXCEPT ![w] = 0]
    /\ UNCHANGED <<file, lockSH, lockEX, ioFails, initIds, assigned, ver>>
    /\ UNCHANGED besideCards

\* lines 61-63: the decorator's answer for a request it does not let through
Refuse(w, verdict) ==
    IF verdict = "401" THEN Reply(w, 401, <<>>) ELSE Send(w, 302, "login")

\* load_cards, line 40: open(DATA_FILE, "r"); a missing file raises
OpenRead(w) ==
    IF file.kind = "missing"
    THEN Reply(w, 500, <<>>)
    ELSE /\ pc' = [pc EXCEPT ![w] = "load_lock"]
         /\ resp' = [resp EXCEPT ![w] = NoResp]

\* POST /api/cards up to the call of load_cards
create_card(w) ==
    \E body \in CreateBodies, now \in Nows :
        /\ Start(w, [op |-> "create", id |-> "", body |-> body, now |-> now,
                     is_json |-> TRUE, auth |-> Authenticated(session)])
        /\ LET verdict == login_required(session, TRUE, <<"api", "cards">>) IN
           IF verdict # "call"
           THEN Refuse(w, verdict)
           ELSE IF ~CreateValid(body)
           THEN Reply(w, 400, <<>>)
           ELSE OpenRead(w)

\* PUT /api/cards/<card_id> up to the call of load_cards
update_card(w) ==
    \E id \in TargetIds, body \in UpdateBodies, now \in Nows :
        /\ Start(w, [op |-> "update", id |-> id, body |-> body, now |-> now,
                     is_json |-> TRUE, auth |-> Authenticated(session)])
        /\ LET verdict == login_required(session, TRUE, <<"api", "cards", id>>) IN
           IF verdict # "call"
           THEN Refuse(w, verdict)
           ELSE IF body = NoKeys
           THEN Reply(w, 400, <<>>)
           ELSE OpenRead(w)

\* DELETE /api/cards/<card_id> up to the call of load_cards
delete_card(w) ==
    \E id \in TargetIds, now \in Nows :
        /\ Start(w, [op |-> "delete", id |-> id, body |-> NoKeys, now |-> now,
                     is_json |-> FALSE, auth |-> Authenticated(session)])
        /\ LET verdict == login_required(session, FALSE, <<"api", "cards", id>>) IN
           IF verdict # "call" THEN Refuse(w, verdict) ELSE OpenRead(w)

\* PATCH /api/cards/<card_id>/toggle up to the call of load_cards
toggle_card(w) ==
    \E id \in TargetIds, now \in Nows :
        /\ Start(w, [op |-> "toggle", id |-> id, body |-> NoKeys, now |-> now,
                     is_json |-> FALSE, auth |-> Authenticated(session)])
        /\ LET verdict ==
                  login_required(session, FALSE, <<"api", "cards", id, "toggle">>) IN
           IF verdict # "call" THEN Refuse(w, verdict) ELSE OpenRead(w)

\* GET /api/cards up to the call of load_cards
get_cards(w) ==
    \E now \in Nows :
        /\ Start(w, [op |-> "get", id |-> "", body |-> NoKeys, now |-> now,
                     is_json |-> FALSE, auth |-> Authenticated(session)])
        /\ LET verdict == login_required(session, FALSE, <<"api", "cards">>) IN
           IF verdict # "call" THEN Refuse(w, verdict) ELSE OpenRead(w)

\* ------------------------------------------------------------ load_cards

\* fcntl.flock(f, fcntl.LOCK_SH): blocks while another holds LOCK_EX
LoadLock(w) ==
    /\ pc[w] = "load_lock"
    /\ lockEX = {}
    /\ lockSH' = lockSH \cup {w}
    /\ pc' = [pc EXCEPT ![w] = "load_read"]
    /\ UNCHANGED <<file, lockEX, req, data, orig, flushed, resp, nReq, ioFails,
                   initIds, assigned, ver, base, openVer, wrNo>>
    /\ UNCHANGED besideCards

\* data = json.load(f): a document, or JSONDecodeError on anything else
LoadRead(w) ==
    /\ pc[w] = "load_read"
    /\ IF file.kind = "doc"
       THEN /\ data' = [data EXCEPT ![w] = file.cards]
            /\ orig' = [orig EXCEPT ![w] = file.cards]
            /\ base' = [base EXCEPT ![w] = ver]
            /\ pc' = [pc EXCEPT ![w] = "load_unlock"]
       ELSE /\ pc' = [pc EXCEPT ![w] = "load_fail"]
            /\ UNCHANGED <<data, orig, base>>
    /\ UNCHANGED <<file, lockSH, lockEX, req, flushed, resp, nReq, ioFails,
                   initIds, assigned, ver, openVer, wrNo>>
    /\ UNCHANGED besideCards

\* what leaving the with block does: f.close() drops the flock of this open file
CloseRead(w) == lockSH \ {w}

\* fcntl.flock(f, fcntl.LOCK_UN), the end of the with block, return data
LoadUnlock(w) ==
    /\ pc[w] = "load_unlock"
    /\ lockSH' = lockSH \ {w}
    /\ pc' = [pc EXCEPT ![w] = "modify"]
    /\ UNCHANGED <<file, lockEX, req, data, orig, flushed, resp, nReq, ioFails,
                   initIds, assigned, ver, base, openVer, wrNo>>
    /\ UNCHANGED besideCards

\* the exception leaves the with block, which closes the file, and no handler
\* catches it: Flask answers 500
LoadFail(w) ==
    /\ pc[w] = "load_fail"
    /\ lockSH' = CloseRead(w)
    /\ Reply(w, 500, <<>>)
    /\ UNCHANGED <<file, lockEX, req, data, orig, flushed, nReq, ioFails,
                   initIds, assigned, ver, base, openVer, wrNo>>
    /\ UNCHANGED besideCards

\* ------------------------------------- the handlers between load and save

\* create_card, lines 137-144
CreateInsert(w) ==
    /\ pc[w] = "modify"
    /\ req[w].op = "create"
    /\ data' = [data EXCEPT ![w] = InsertCard(@, BuildCard(req[w].body, req[w].now))]
    /\ assigned' = assigned \cup {data'[w][1].id}
    /\ pc' = [pc EXCEPT ![w] = "save_open"]
    /\ UNCHANGED <<file, lockSH, lockEX, req, orig, flushed, resp, nReq, ioFails,
                   initIds, ver, base, openVer, wrNo>>
    /\ UNCHANGED besideCards

\* update_card, lines 158-167
UpdateApply(w) ==
    /\ pc[w] = "modify"
    /\ req[w].op = "update"
    /\ LET i == FirstIndex(data[w], req[w].id) IN
       IF i = 0
       THEN Reply(w, 404, <<>>) /\ UNCHANGED data
       ELSE /\ data' = [data EXCEPT ![w][i] = ApplyUpdate(@, req[w].body)]
            /\ pc' = [pc EXCEPT ![w] = "save_open"]
            /\ UNCHANGED resp
    /\ UNCHANGED <<file, lockSH, lockEX, req, orig, flushed, nReq, ioFails,
                   initIds, assigned, ver, base, openVer, wrNo>>
    /\ UNCHANGED besideCards

\* delete_card, lines 174-178
DeleteFilter(w) ==
    /\ pc[w] = "modify"
    /\ req[w].op = "delete"
    /\ LET kept == DeleteCards(data[w], req[w].id) IN
       IF Len(kept) = Len(data[w])
       THEN Reply(w, 404, <<>>) /\ UNCHANGED data
       ELSE /\ data' = [data EXCEPT ![w] = kept]
            /\ pc' = [pc EXCEPT ![w] = "save_open"]
            /\ UNCHANGED resp
    /\ UNCHANGED <<file, lockSH, lockEX, req, orig, flushed, nReq, ioFails,
                   initIds, assigned, ver, base, openVer, wrNo>>
    /\ UNCHANGED besideCards

\* toggle_card, lines 188-194
ToggleFlip(w) ==
    /\ pc[w] = "modify"
    /\ req[w].op = "toggle"
    /\ LET i == FirstIndex(data[w], req[w].id) IN
       IF i = 0
       THEN Reply(w, 404, <<>>) /\ UNCHANGED data
       ELSE /\ data' = [data EXCEPT ![w][i] = FlipVisible(@)]
            /\ pc' = [pc EXCEPT ![w] = "save_open"]
            /\ UNCHANGED resp
    /\ UNCHANGED <<file, lockSH, lockEX, req, orig, flushed, nReq, ioFails,
                   initIds, assigned, ver, base, openVer, wrNo>>
    /\ UNCHANGED besideCards

\* get_cards, line 108
GetReturn(w) ==
    /\ pc[w] = "modify"
    /\ req[w].op = "get"
    /\ Reply(w, 200, data[w])
    /\ UNCHANGED <<file, lockSH, lockEX, req, data, orig, flushed, nReq, ioFails,
                   initIds, assigned, ver, base, openVer, wrNo>>
    /\ UNCHANGED besideCards

\* ------------------------------------------------------------ save_cards

\* open(DATA_FILE, "w"): the file is cut to length 0 before any lock is asked for
SaveOpen(w) ==
    /\ pc[w] = "save_open"
    /\ file' = Truncate(file)
    /\ openVer' = [openVer EXCEPT ![w] = ver]
    /\ pc' = [pc EXCEPT ![w] = "save_lock"]
    /\ UNCHANGED <<lockSH, lockEX, req, data, orig, flushed, resp, nReq, ioFails,
                   initIds, assigned, ver, base, wrNo>>
    /\ UNCHANGED besideCards

\* fcntl.flock(f, fcntl.LOCK_EX): blocks while another holds any lock
SaveLock(w) ==
    /\ pc[w] = "save_lock"
    /\ lockEX = {}
    /\ lockSH = {}
    /\ lockEX' = {w}
    /\ pc' = [pc EXCEPT ![w] = "save_dump"]
    /\ UNCHANGED <<file, lockSH, req, data, orig, flushed, resp, nReq, ioFails,
                   initIds, assigned, ver, base, openVer, wrNo>>
    /\ UNCHANGED besideCards

\* the bytes of this worker's document reach the file
WriteDoc(w) ==
    /\ file' = Overwrite(file, data[w])
    /\ flushed' = [flushed EXCEPT ![w] = TRUE]
    /\ ver' = ver + 1
    /\ wrNo' = [wrNo EXCEPT ![w] = ver + 1]

\* json.dump(data, f, ...): the text stays in f's buffer, or is written
\* through, or a write fails (disk full) with part of it on disk or none
SaveDump(w) ==
    /\ pc[w] = "save_dump"
    /\ \/ /\ pc' = [pc EXCEPT ![w] = "save_unlock"]
          /\ UNCHANGED <<file, flushed, ver, wrNo, ioFails>>
       \/ /\ WriteDoc(w)
          /\ pc' = [pc EXCEPT ![w] = "save_unlock"]
          /\ UNCHANGED ioFails
       \/ /\ ioFails < MaxIOFail
          /\ ioFails' = ioFails + 1
          /\ \/ UNCHANGED <<file, ver>>
             \/ file' = PartialWrite(file, data[w]) /\ ver' = ver + 1
          /\ pc' = [pc EXCEPT ![w] = "save_fail"]
          /\ UNCHANGED <<flushed, wrNo>>
    /\ UNCHANGED <<lockSH, lockEX, req, data, orig, resp, nReq,
                   initIds, assigned, base, openVer>>
    /\ UNCHANGED besideCards

\* fcntl.flock(f, fcntl.LOCK_UN)
SaveUnlock(w) ==
    /\ pc[w] = "save_unlock"
    /\ lockEX' = lockEX \ {w}
    /\ pc' = [pc EXCEPT ![w] = "save_exit"]
    /\ UNCHANGED <<file, lockSH, req, data, orig, flushed, resp, nReq, ioFails,
                   initIds, assigned, ver, base, openVer, wrNo>>
    /\ UNCHANGED besideCards

\* the body of the handler's final jsonify(...)
Returned(w) ==
    CASE req[w].op = "create" -> <<data[w][1]>>
      [] req[w].op = "delete" -> <<>>
      [] OTHER -> <<data[w][FirstIndex(data[w], req[w].id)]>>

\* the end of the with block: f.close() writes what the buffer still holds;
\* then the handler's return jsonify(card), 201 / jsonify(card) /
\* jsonify({"ok": True})
SaveExit(w) ==
    /\ pc[w] = "save_exit"
    /\ IF flushed[w]
       THEN UNCHANGED <<file, flushed, ver, wrNo>>
       ELSE WriteDoc(w)
    /\ Reply(w, IF req[w].op = "create" THEN 201 ELSE 200, Returned(w))
    /\ UNCHANGED <<lockSH, lockEX, req, data, orig, nReq, ioFails,
                   initIds, assigned, base, openVer>>
    /\ UNCHANGED besideCards

\* variant for sensitivity: the file left open on the error path, its flock with it
CloseWriteLeak(w) == lockEX

\* what leaving the with block does: f.close() drops the flock of this open file
CloseWrite(w) == lockEX \ {w}

\* the exception leaves the with block, which closes the file, and no handler
\* catches it: Flask answers 500
SaveFail(w) ==
    /\ pc[w] = "save_fail"
    /\ lockEX' = CloseWrite(w)
    /\ Reply(w, 500, <<>>)
    /\ UNCHANGED <<file, lockSH, req, data, orig, flushed, nReq, ioFails,
                   initIds, assigned, ver, base, openVer, wrNo>>
    /\ UNCHANGED besideCards

\* ---------------------------------------------------------- specification

NoReq ==
    [op |-> "none", id |-> "", body |-> NoKeys, now |-> CHOOSE n \in Nows : TRUE,
     is_json |-> FALSE, auth |-> FALSE]

InitCards ==
    /\ \/ \E seed \in Seeds :
             /\ file = DocFile(seed)
             /\ initIds = Ids(seed)
       \/ /\ file = NoCardFile
          /\ initIds = {}
    /\ lockSH = {}
    /\ lockEX = {}
    /\ pc = [w \in Workers |-> "idle"]
    /\ req = [w \in Workers |-> NoReq]
    /\ data = [w \in Workers |-> <<>>]
    /\ orig = [w \in Workers |-> <<>>]
    /\ flushed = [w \in Workers |-> FALSE]
    /\ resp = [w \in Workers |-> NoResp]
    /\ nReq = 0
    /\ ioFails = 0
    /\ assigned = {}
    /\ ver = 0
    /\ base = [w \in Workers |-> 0]
    /\ openVer = [w \in Workers |-> 0]
    /\ wrNo = [w \in Workers |-> 0]

NextCards ==
    \E w \in Workers :
        \/ create_card(w) \/ update_card(w) \/ delete_card(w)
        \/ toggle_card(w) \/ get_cards(w)
        \/ LoadLock(w) \/ LoadRead(w) \/ LoadUnlock(w) \/ LoadFail(w)
        \/ CreateInsert(w) \/ UpdateApply(w) \/ DeleteFilter(w)
        \/ ToggleFlip(w) \/ GetReturn(w)
        \/ SaveOpen(w) \/ SaveLock(w) \/ SaveDump(w) \/ SaveUnlock(w)
        \/ SaveExit(w) \/ SaveFail(w)

\* ------------------------------------------------------ card store claims

\* positions inside load_cards or save_cards at which the code holds a flock
HoldingPcs ==
    {"load_read", "load_unlock", "load_fail", "save_dump", "save_unlock", "save_fail"}

\* positions of a handler between or after its store calls
OutsidePcs == {"idle", "modify", "save_open", "done"}

\* positions inside save_cards
SavePcs ==
    {"save_lock", "save_dump", "save_unlock", "save_exit", "save_fail"}

\* the worker's request got past its in-memory change
Changed(w) ==
    \/ pc[w] \in SavePcs \cup {"save_open"}
    \/ pc[w] = "done" /\ resp[w].status \in {200, 201} /\ req[w].op # "get"

\* C1: every collection handed to save_cards, and every complete document in
\* the backing file, has pairwise distinct card ids.
C1_UniqueIds ==
    /\ file.kind = "doc" => DistinctIds(file.cards)
    /\ \A w \in Workers : Changed(w) => DistinctIds(data[w])

\* C1 witness: a create whose base id was taken got a suffixed id, and the
\* collection holding both cards is in the file.
C1_Witness ==
    \E w \in Workers :
        /\ pc[w] = "done" /\ req[w].op = "create" /\ resp[w].status = 201
        /\ resp[w].cards[1].id # BaseId(req[w].body, req[w].now)
        /\ BaseId(req[w].body, req[w].now) \in Ids(file.cards)
        /\ file = DocFile(data[w])

\* C2: a worker holding the shared lock finds a completely written document
\* in the file (no truncation or write happens outside the exclusive lock);
\* stated for runs in which no write failed.
C2_ReadersSeeWholeDocument ==
    \A w \in Workers : (ioFails = 0 /\ w \in lockSH) => file.kind = "doc"

\* C3: once a store call has ended, normally or by an exception, the worker
\* holds no lock on the backing file.
C3_NoLockAfterCall ==
    \A w \in Workers : pc[w] \in OutsidePcs => w \notin (lockSH \cup lockEX)

\* C3 witness: a write failed under the exclusive lock and was answered 500,
\* and the other worker has since been granted the exclusive lock.
C3_Witness ==
    \E w, v \in Workers :
        /\ w # v
        /\ pc[w] = "done" /\ resp[w].status = 500
        /\ ioFails = 1 /\ data[w] # orig[w]
        /\ lockEX = {v}

\* a reads, b reads the same document, a's bytes are written, then b opens
\* and writes; both have answered and nothing touched the file since
LostUpdatePattern(a, b) ==
    /\ a # b
    /\ pc[a] = "done" /\ pc[b] = "done"
    /\ wrNo[a] > 0 /\ wrNo[b] > 0
    /\ base[a] = base[b]
    /\ wrNo[a] = base[a] + 1
    /\ openVer[b] = wrNo[a]
    /\ wrNo[b] = wrNo[a] + 1
    /\ ver = wrNo[b]

\* C4: after "A reads, B reads, A writes, B writes" both requests were
\* answered as successes (never a conflict), and the file holds B's
\* collection only: a card A created is absent, a card A deleted is back.
C4_LostUpdate ==
    \A a, b \in Workers :
        LostUpdatePattern(a, b) =>
            /\ resp[a].status \in {200, 201}
            /\ resp[b].status \in {200, 201}
            /\ file = DocFile(data[b])
            /\ (req[a].op = "create" /\ req[b].op # "create")
                   => resp[a].cards[1].id \notin Ids(file.cards)
            /\ (req[a].op = "delete" /\ req[b].op # "delete")
                   => req[a].id \in Ids(file.cards)

\* C4 witness: the pattern with A a create answered 201 whose card is not in
\* the file.
C4_Witness ==
    \E a, b \in Workers :
        /\ LostUpdatePattern(a, b)
        /\ req[a].op = "create" /\ resp[a].status = 201
        /\ req[b].op \in {"delete", "toggle", "update"} /\ resp[b].status = 200
        /\ resp[a].cards[1].id \notin Ids(file.cards)

\* C5: every card of a document in the file carries an id of the pre-seeded
\* collection or an id that a create request built.
C5_OnlyAssignedIds ==
    file.kind = "doc" => Ids(file.cards) \subseteq (initIds \cup assigned)

\* C5 witness: a create and a delete that read the same document have both
\* been answered as successes and the file holds a document.
C5_Witness ==
    \E a, b \in Workers :
        /\ a # b
        /\ pc[a] = "done" /\ req[a].op = "create" /\ resp[a].status = 201
        /\ pc[b] = "done" /\ req[b].op = "delete" /\ resp[b].status = 200
        /\ base[a] = base[b]
        /\ file.kind = "doc"

\* the card an update addressed, before and after the in-memory change
UpdOld(w) == orig[w][FirstIndex(orig[w], req[w].id)]
UpdNew(w) == data[w][FirstIndex(orig[w], req[w].id)]

\* C10: an update of an existing card sets title and content to the values
\* the request gives, "" included, and leaves the one the request omits as it
\* was read; when its write is the last one, that is what the file holds.
C10_UpdatePartial ==
    \A w \in Workers :
        (req[w].op = "update" /\ Changed(w)) =>
            /\ UpdNew(w).title =
                   (IF Has(req[w].body, "title") THEN req[w].body["title"]
                    ELSE UpdOld(w).title)
            /\ UpdNew(w).content =
                   (IF Has(req[w].body, "content") THEN req[w].body["content"]
                    ELSE UpdOld(w).content)
            /\ (pc[w] = "done" /\ file.kind = "doc" /\ wrNo[w] = ver)
                   => file.cards = data[w]

\* C10 witness: an update that gave content, as "", and no title was answered
\* 200 with the card's content "" and its title the one read.
C10_Witness ==
    \E w \in Workers :
        /\ pc[w] = "done" /\ req[w].op = "update" /\ resp[w].status = 200
        /\ ~Has(req[w].body, "title") /\ req[w].body["content"] = ""
        /\ resp[w].cards[1].content = "" /\ UpdOld(w).content # ""
        /\ resp[w].cards[1].title = UpdOld(w).title
        /\ file = DocFile(data[w])

\* C11: an update with an empty body addressed to an existing card, the only
\* request of the run, is answered 200 with that card as it is in the file.
C11_EmptyUpdateIsNoOp ==
    \A w \in Workers :
        ( /\ pc[w] = "done" /\ req[w].op = "update" /\ req[w].body = NoKeys
          /\ req[w].id \in initIds /\ nReq = 1 )
        => /\ resp[w].status = 200
           /\ resp[w].cards = <<file.cards[FirstIndex(file.cards, req[w].id)]>>

\* two toggles of one id, the second reading what the first wrote, and no
\* other request in the run
ToggledTwice(w, v) ==
    /\ w # v
    /\ pc[w] = "done" /\ pc[v] = "done"
    /\ req[w].op = "toggle" /\ req[v].op = "toggle"
    /\ req[w].id = req[v].id
    /\ resp[w].status = 200 /\ resp[v].status = 200
    /\ base[w] = 0 /\ wrNo[w] = 1
    /\ base[v] = 1 /\ wrNo[v] = 2
    /\ ver = 2

C13_NotFoundWritesNothing ==
    [][ \A w \in Workers :
          ( /\ pc[w] = "modify"
            /\ req[w].op \in {"delete", "update", "toggle"}
            /\ req[w].id \notin Ids(data[w])
            /\ pc'[w] # pc[w] )
          => /\ pc'[w] = "done"
             /\ resp'[w].status = 404
             /\ file' = file
             /\ ver' = ver
             /\ lockEX' = lockEX ]_vars

\* C13 witness: a delete of an id no card has was answered 404, with the
\* seeded collection in the file, never opened for writing.
C13_Witness ==
    \E w \in Workers :
        /\ pc[w] = "done" /\ req[w].op = "delete" /\ req[w].id = "ghost"
        /\ resp[w].status = 404
        /\ orig[w] = <<SeedCard>>
        /\ file = DocFile(<<SeedCard>>) /\ ver = 0

\* C14: a create whose title or content is missing or "" is answered 400 at
\* once: the worker never read the file, never opened it for writing and
\* holds no lock.
C14_CreateValidation ==
    \A w \in Workers :
        ( /\ req[w].op = "create"
          /\ \/ ~Truthy(req[w].body, "title")
             \/ ~Truthy(req[w].body, "content") )
        => /\ pc[w] = "done"
           /\ resp[w].status = 400
           /\ orig[w] = <<>> /\ data[w] = <<>>
           /\ wrNo[w] = 0 /\ openVer[w] = 0
           /\ w \notin (lockSH \cup lockEX)

\* C14 witness: a create with title "" was answered 400, the only request of
\* the run, and the seeded collection is in the file.
C14_Witness ==
    \E w \in Workers :
        /\ pc[w] = "done" /\ req[w].op = "create" /\ resp[w].status = 400
        /\ Has(req[w].body, "title") /\ req[w].body["title"] = ""
        /\ nReq = 1 /\ file = DocFile(<<SeedCard>>)

\* C15: the collection a create hands to save_cards is the new card followed
\* by the cards it read, in their order; the new card is visible and carries
\* the request's title and content; when its write is the last one, that is
\* the collection in the file.
C15_CreateAtHead ==
    \A w \in Workers :
        (req[w].op = "create" /\ Changed(w)) =>
            /\ Len(data[w]) = Len(orig[w]) + 1
            /\ Tail(data[w]) = orig[w]
            /\ data[w][1].visible = TRUE
            /\ data[w][1].title = req[w].body["title"]
            /\ data[w][1].content = req[w].body["content"]
            /\ data[w][1].id \notin Ids(orig[w])
            /\ (pc[w] = "done" /\ file.kind = "doc" /\ wrNo[w] = ver)
                   => /\ file.cards = data[w]
                      /\ resp[w].cards = <<file.cards[1]>>

\* C15 witness: a create that read two cards was answered 201 and the file
\* holds its three cards.
C15_Witness ==
    \E w \in Workers :
        /\ pc[w] = "done" /\ req[w].op = "create" /\ resp[w].status = 201
        /\ Len(orig[w]) = 2
        /\ file = DocFile(data[w])
        /\ orig[w][2] = SeedCard

\* C16: the collection an update hands to save_cards differs from the one it
\* read in title and content at most, and the one a toggle hands over in
\* visible at most: same length, and id, date, date_display, created_at of
\* every card as read.
C16_ImmutableFields ==
    \A w \in Workers :
        (req[w].op \in {"update", "toggle"} /\ Changed(w)) =>
            /\ Len(data[w]) = Len(orig[w])
            /\ \A i \in DOMAIN orig[w] :
                  /\ data[w][i].id = orig[w][i].id
                  /\ data[w][i].date = orig[w][i].date
                  /\ data[w][i].date_display = orig[w][i].date_display
                  /\ data[w][i].created_at = orig[w][i].created_at
                  /\ req[w].op = "update" =>
                        data[w][i].visible = orig[w][i].visible
                  /\ req[w].op = "toggle" =>
                        /\ data[w][i].title = orig[w][i].title
                        /\ data[w][i].content = orig[w][i].content

\* C16 witness: an update whose body carries id, date, date_display,
\* created_at and visible was answered 200 and its collection is in the file.
C16_Witness ==
    \E w \in Workers :
        /\ pc[w] = "done" /\ req[w].op = "update" /\ resp[w].status = 200
        /\ {"id", "date", "date_display", "created_at", "visible"}
               \subseteq DOMAIN req[w].body
        /\ resp[w].cards[1].id = req[w].id
        /\ resp[w].cards[1].date = UpdOld(w).date
        /\ file = DocFile(data[w])

\* ------------------------------------------------------ missing-file claim

\* the answers a card route gives itself: jsonify(...) with 200, 201, 400,
\* 401 or 404; 500 is the server's page for an exception no handler caught
HandlerAnswers == {200, 201, 400, 401, 404}

\* C22: with the backing file missing, every card request that was answered
\* got one of the handlers' own JSON answers, and every visit request was
\* answered 200 from the default document.
C22_MissingFileRecoverable ==
    /\ file.kind = "missing" =>
          \A w \in Workers : pc[w] = "done" => resp[w].status \in HandlerAnswers
    /\ vfile.kind = "missing" =>
          \A w \in Workers : vpc[w] = "done" => vresp[w].status = 200

\* -------------------------------------------------------- id probing claim

\* f"{card_id}-{i}"
Suffixed(card_id, i) == card_id \o "-" \o ToString(i)

\* C24: the card a create inserted has the base id when the collection it
\* read had no such id, and otherwise base-k for the smallest k >= 2 with
\* base-k not in that collection; k is at most the collection's size plus 1.
C24_SmallestFreeSuffix ==
    \A w \in Workers :
        (req[w].op = "create" /\ Changed(w)) =>
            LET card_id == BaseId(req[w].body, req[w].now)
                existing_ids == Ids(orig[w])
                got == data[w][1].id
            IN  IF card_id \notin existing_ids
                THEN got = card_id
                ELSE \E k \in 2..(Len(orig[w]) + 1) :
                        /\ got = Suffixed(card_id, k)
                        /\ got \notin existing_ids
                        /\ \A j \in 2..(k - 1) :
                               Suffixed(card_id, j) \in existing_ids

\* C24 witness: a create answered 201 whose base id and base-2 were both
\* taken, so that it got base-3.
C24_Witness ==
    \E w \in Workers :
        /\ pc[w] = "done" /\ req[w].op = "create" /\ resp[w].status = 201
        /\ Suffixed(BaseId(req[w].body, req[w].now), 2) \in Ids(orig[w])
        /\ resp[w].cards[1].id = Suffixed(BaseId(req[w].body, req[w].now), 3)

\* ------------------------------------------------------------ publishing
\* deploy() of the news card manager and PortalManager.deploy() drive git in
\* the same project directory.

\* whether pat occurs in words as a run of consecutive words ("pat in text")
Contains(words, pat) ==
    \E i \in 0..(Len(words) - Len(pat)) :
        \A k \in 1..Len(pat) : words[i + k] = pat[k]

\* what git commit prints when nothing is staged, by the working tree's state
NothingStagedStdout(wtDirty, wtUntracked) ==
    IF wtDirty
    THEN <<"no", "changes", "added", "to", "commit">>
    ELSE IF wtUntracked
    THEN <<"nothing", "added", "to", "commit", "but", "untracked", "files", "present">>
    ELSE <<"nothing", "to", "commit", ",", "working", "tree", "clean">>

\* jsonify({"ok": True, "message": ...})
JsonOk(message) ==
    [status |-> 200, body |-> ("ok" :> <<"true">>) @@ ("message" :> message)]

\* jsonify({"error": ...}), 500
JsonError(text) == [status |-> 500, body |-> ("error" :> text)]

\* return True / return False
PortalReturn(b) == [status |-> 0, body |-> ("return" :> <<b>>)]

\* an exception leaving the function
Raised(text) == [status |-> 0, body |-> ("exception" :> text)]

NoOutcome == [status |-> 0, body |-> ("none" :> <<>>)]

\* the call ends with outcome o; stage tells the history what failed
Finish(o, stage) ==
    /\ outcome' = o
    /\ failedAt' = stage
    /\ ppc' = "done"

BeginWith(e, m, first, o) ==
    /\ ppc \in {"idle", "done"}
    /\ nPub < MaxPublish
    /\ nPub' = nPub + 1
    /\ entry' = e
    /\ msg' = m
    /\ rendered' = 0
    /\ ran' = <<>>
    /\ okStages' = {}
    /\ nothingStaged' = FALSE
    /\ pushTries' = 0
    /\ commitsAtStart' = localCommits
    /\ failedAt' = "none"
    /\ outcome' = o
    /\ ppc' = first

Begin(e, m, first) == BeginWith(e, m, first, NoOutcome)

\* jsonify({"error": ...}), 401 / redirect(url_for("login"))
Unauthorized(verdict) ==
    IF verdict = "401"
    THEN [status |-> 401, body |-> ("error" :> <<"login needed">>)]
    ELSE [status |-> 302, body |-> ("location" :> <<"login">>)]

\* POST /api/deploy, up to the try
deploy ==
    /\ LET verdict == login_required(session, FALSE, <<"api", "deploy">>) IN
       IF verdict = "call"
       THEN Begin("news", "Update news - T", "n_load")
       ELSE BeginWith("news", "", "done", Unauthorized(verdict))
    /\ UNCHANGED <<repoVars, nEdits>>
    /\ UNCHANGED besidePublish

\* data = load_cards(), line 513: the collection, or an exception (a missing
\* or malformed file) caught at line 549
NewsLoad ==
    /\ ppc = "n_load"
    /\ ran' = Append(ran, "generate")
    /\ \/ /\ rendered' = cardsRev
          /\ ppc' = "n_generate"
          /\ UNCHANGED <<outcome, failedAt>>
       \/ /\ Finish(JsonError(<<"Expecting value: line 1 column 1 (char 0)">>), "generate")
          /\ UNCHANGED rendered
    /\ UNCHANGED <<repoVars, entry, msg, okStages, nothingStaged, pushTries,
                   commitsAtStart, nPub, nEdits>>
    /\ UNCHANGED besidePublish

\* lines 516-518: render and write news.html; an OSError is caught at line 549
NewsGenerate ==
    /\ ppc = "n_generate"
    /\ \/ /\ htmlRev' = rendered
          /\ okStages' = okStages \cup {"generate"}
          /\ ppc' = "n_add"
          /\ UNCHANGED <<outcome, failedAt>>
       \/ /\ htmlRev' = -1
          /\ Finish(JsonError(<<"[Errno 28] No space left on device">>), "generate")
          /\ UNCHANGED okStages
    /\ UNCHANGED <<cardsRev, index, head, localCommits, remoteCommits, untracked, dirty,
                   entry, rendered, msg, ran, nothingStaged, pushTries,
                   commitsAtStart, nPub, nEdits>>
    /\ UNCHANGED besidePublish

\* variant for sensitivity: git add run without check=True
AfterAddUnchecked(rc) == "n_commit"

\* subprocess.run([... "add" ...], check=True): on, or CalledProcessError
AfterAdd(rc) == IF rc = 0 THEN "n_commit" ELSE "done"

\* line 522: git add news.html data/news.json
NewsAdd ==
    /\ ppc = "n_add"
    /\ ran' = Append(ran, "stage")
    /\ \E rc \in {0, 128} :
          /\ IF rc = 0
             THEN /\ index' = [index EXCEPT !.html = htmlRev, !.json = cardsRev]
                  /\ okStages' = okStages \cup {"stage"}
             ELSE UNCHANGED <<index, okStages>>
          /\ IF AfterAdd(rc) = "done"
             THEN Finish(JsonError(<<"Command", "git", "add", "returned non-zero exit status">>),
                         "stage")
             ELSE /\ ppc' = AfterAdd(rc)
                  /\ UNCHANGED <<outcome, failedAt>>
    /\ UNCHANGED <<cardsRev, htmlRev, head, localCommits, remoteCommits, untracked, dirty,
                   entry, rendered, msg, nothingStaged, pushTries,
                   commitsAtStart, nPub, nEdits>>
    /\ UNCHANGED besidePublish

\* something is staged that HEAD does not have
Staged == index.html # head.html \/ index.json # head.json \/ index.other

\* tracked files differ from the index
WorktreeDirty == dirty \/ htmlRev # index.html \/ cardsRev # index.json

\* git commit -m msg: [rc, stdout]; with something staged it commits or
\* fails (no identity, a hook), with nothing staged it exits 1
CommitResults ==
    IF Staged
    THEN { [rc |-> 0, stdout |-> <<"1", "file", "changed">>],
           [rc |-> 128, stdout |-> <<>>] }
    ELSE { [rc |-> 1, stdout |-> NothingStagedStdout(WorktreeDirty, untracked)] }

\* what a successful git commit does to the repository
Committed ==
    /\ head' = [html |-> index.html, json |-> index.json]
    /\ index' = [index EXCEPT !.other = FALSE]
    /\ localCommits' = localCommits + 1

\* lines 530-534: what deploy makes of git commit's result; "push" for going on
NewsCommitVerdict(r) ==
    IF r.rc # 0 /\ Contains(r.stdout, <<"nothing", "to", "commit">>)
    THEN "nochange"
    ELSE IF r.rc # 0 THEN "error" ELSE "push"

\* lines 524-534: git commit
NewsCommit ==
    /\ ppc = "n_commit"
    /\ ran' = Append(ran, "commit")
    /\ nothingStaged' = ~Staged
    /\ \E r \in CommitResults :
          /\ IF r.rc = 0
             THEN Committed /\ okStages' = okStages \cup {"commit"}
             ELSE UNCHANGED <<head, index, localCommits, okStages>>
          /\ CASE NewsCommitVerdict(r) = "nochange" ->
                    Finish(JsonOk(<<"no changes">>), "none")
               [] NewsCommitVerdict(r) = "error" ->
                    Finish(JsonError(<<"git commit failed", "stderr">>), "commit")
               [] OTHER ->
                    ppc' = "n_push" /\ UNCHANGED <<outcome, failedAt>>
    /\ UNCHANGED <<cardsRev, htmlRev, remoteCommits, untracked, dirty,
                   entry, rendered, msg, pushTries, commitsAtStart, nPub, nEdits>>
    /\ UNCHANGED besidePublish

\* variant for sensitivity: push_result.returncode not looked at
NewsPushOutcomeIgnoringRc(rc, m) == JsonOk(<<"deploy done", m>>)

\* lines 541-547: the answer after git push
NewsPushOutcome(rc, m) ==
    IF rc # 0
    THEN JsonError(<<"git push failed", "stderr">>)
    ELSE JsonOk(<<"deploy done", m>>)

\* lines 536-547: git push
NewsPush ==
    /\ ppc = "n_push"
    /\ ran' = Append(ran, "push")
    /\ pushTries' = pushTries + 1
    /\ \E rc \in {0, 1} :
          /\ IF rc = 0
             THEN /\ remoteCommits' = localCommits
                  /\ okStages' = okStages \cup {"push"}
             ELSE UNCHANGED <<remoteCommits, okStages>>
          /\ Finish(NewsPushOutcome(rc, msg), IF rc = 0 THEN "none" ELSE "push")
    /\ UNCHANGED <<cardsRev, htmlRev, index, head, localCommits, untracked, dirty,
                   entry, rendered, msg, nothingStaged, commitsAtStart, nPub, nEdits>>
    /\ UNCHANGED besidePublish

\* PortalManager.deploy(message), lines 185-191
PortalDeploy ==
    \E m \in {"caller message", "Update portal - T"}, backup \in BOOLEAN :
        /\ Begin("portal", m, IF backup THEN "p_backup" ELSE "p_add")
        /\ UNCHANGED <<repoVars, nEdits>>
        /\ UNCHANGED besidePublish

\* self.backup(), lines 171-183, outside the try: copies into backups/, or an
\* OSError leaves deploy
PortalBackup ==
    /\ ppc = "p_backup"
    /\ \/ /\ untracked' = TRUE
          /\ ppc' = "p_add"
          /\ UNCHANGED <<outcome, failedAt>>
       \/ /\ Finish(Raised(<<"OSError">>), "backup")
          /\ UNCHANGED untracked
    /\ UNCHANGED <<cardsRev, htmlRev, index, head, localCommits, remoteCommits, dirty,
                   entry, rendered, msg, ran, okStages, nothingStaged, pushTries,
                   commitsAtStart, nPub, nEdits>>
    /\ UNCHANGED besidePublish

\* line 195: git add -A, check=True; CalledProcessError is caught at line 205
PortalAdd ==
    /\ ppc = "p_add"
    /\ ran' = Append(ran, "stage")
    /\ \/ /\ index' = [html |-> htmlRev, json |-> cardsRev,
                       other |-> (index.other \/ dirty \/ untracked)]
          /\ dirty' = FALSE
          /\ untracked' = FALSE
          /\ okStages' = okStages \cup {"stage"}
          /\ ppc' = "p_commit"
          /\ UNCHANGED <<outcome, failedAt>>
       \/ /\ Finish(PortalReturn("False"), "stage")
          /\ UNCHANGED <<index, dirty, untracked, okStages>>
    /\ UNCHANGED <<cardsRev, htmlRev, head, localCommits, remoteCommits,
                   entry, rendered, msg, nothingStaged, pushTries,
                   commitsAtStart, nPub, nEdits>>
    /\ UNCHANGED besidePublish

\* line 196: git commit -m message, check=True: any non-zero exit status is a
\* CalledProcessError, caught at line 205
PortalCommit ==
    /\ ppc = "p_commit"
    /\ ran' = Append(ran, "commit")
    /\ nothingStaged' = ~Staged
    /\ \E r \in CommitResults :
          IF r.rc = 0
          THEN /\ Committed
               /\ okStages' = okStages \cup {"commit"}
               /\ ppc' = "p_push"
               /\ UNCHANGED <<outcome, failedAt>>
          ELSE /\ Finish(PortalReturn("False"), "commit")
               /\ UNCHANGED <<head, index, localCommits, okStages>>
    /\ UNCHANGED <<cardsRev, htmlRev, remoteCommits, untracked, dirty,
                   entry, rendered, msg, pushTries, commitsAtStart, nPub, nEdits>>
    /\ UNCHANGED besidePublish

\* lines 197-207: git push, check=True; then the log, the notification (which
\* catches its own errors) and return True
PortalPush ==
    /\ ppc = "p_push"
    /\ ran' = Append(ran, "push")
    /\ pushTries' = pushTries + 1
    /\ \/ /\ remoteCommits' = localCommits
          /\ okStages' = okStages \cup {"push"}
          /\ Finish(PortalReturn("True"), "none")
       \/ /\ Finish(PortalReturn("False"), "push")
          /\ UNCHANGED <<remoteCommits, okStages>>
    /\ UNCHANGED <<cardsRev, htmlRev, index, head, localCommits, untracked, dirty,
                   entry, rendered, msg, nothingStaged, commitsAtStart, nPub, nEdits>>
    /\ UNCHANGED besidePublish

\* a card handler's save_cards completes: data/news.json has new content
CardsSaved ==
    /\ nEdits < MaxEdits
    /\ nEdits' = nEdits + 1
    /\ cardsRev' = cardsRev + 1
    /\ UNCHANGED <<htmlRev, index, head, localCommits, remoteCommits, untracked, dirty,
                   callVars, ppc, nPub>>
    /\ UNCHANGED besidePublish

\* PortalManager.create_page, lines 82-112: a new page file, and config.json
\* and index.html rewritten
create_page ==
    /\ nEdits < MaxEdits
    /\ nEdits' = nEdits + 1
    /\ untracked' = TRUE
    /\ dirty' = TRUE
    /\ UNCHANGED <<cardsRev, htmlRev, index, head, localCommits, remoteCommits,
                   callVars, ppc, nPub>>
    /\ UNCHANGED besidePublish

\* ---------------------------------------------------------- session routes

\* A worker takes a request to a route that is not a card route; its locals
\* are those of a fresh call.
Take(w, r) ==
    /\ pc[w] \in {"idle", "done"}
    /\ req' = [req EXCEPT ![w] = r]
    /\ data' = [data EXCEPT ![w] = <<>>]
    /\ orig' = [orig EXCEPT ![w] = <<>>]
    /\ flushed' = [flushed EXCEPT ![w] = FALSE]
    /\ base' = [base EXCEPT ![w] = 0]
    /\ openVer' = [openVer EXCEPT ![w] = 0]
    /\ wrNo' = [wrNo EXCEPT ![w] = 0]
    /\ UNCHANGED <<file, lockSH, lockEX, nReq, ioFails, initIds, assigned, ver>>
    /\ UNCHANGED besideAuth

\* GET /login, POST /login (lines 68-80)
login(w) ==
    \/ \E now \in Nows :
          /\ Take(w, [op |-> "login", id |-> "GET", body |-> NoKeys, now |-> now,
                      is_json |-> FALSE, auth |-> Authenticated(session)])
          /\ Send(w, 200, "login.html")
          /\ UNCHANGED session
    \/ \E password \in Passwords, now \in Nows :
          /\ Take(w, [op |-> "login", id |-> "POST", body |-> ("password" :> password),
                      now |-> now, is_json |-> FALSE, auth |-> Authenticated(session)])
          /\ IF Sha256Hex(password) = ADMIN_HASH
             THEN /\ session' = ("authenticated" :> TRUE) @@ session
                  /\ Send(w, 302, "manager")
             ELSE /\ Send(w, 200, "login.html")
                  /\ UNCHANGED session

\* GET /logout (lines 83-86)
logout(w) ==
    \E now \in Nows :
        /\ Take(w, [op |-> "logout", id |-> "GET", body |-> NoKeys, now |-> now,
                    is_json |-> FALSE, auth |-> Authenticated(session)])
        /\ session' = NoSession
        /\ Send(w, 302, "login")

\* GET / (lines 91-93)
index_route(w) ==
    \E now \in Nows :
        /\ Take(w, [op |-> "index", id |-> "GET", body |-> NoKeys, now |-> now,
                    is_json |-> FALSE, auth |-> Authenticated(session)])
        /\ Send(w, 302, "login")
        /\ UNCHANGED session

\* GET /manager (lines 96-99), behind login_required
manager(w) ==
    \E is_json \in BOOLEAN, now \in Nows :
        /\ Take(w, [op |-> "manager", id |-> "GET", body |-> NoKeys, now |-> now,
                    is_json |-> is_json, auth |-> Authenticated(session)])
        /\ LET verdict == login_required(session, is_json, <<"manager">>) IN
           IF verdict # "call"
           THEN Refuse(w, verdict)
           ELSE Send(w, 200, "manager.html")
        /\ UNCHANGED session

\* ------------------------------------------------------------- rendering
\* generate_news_html, lines 199-216. Titles and contents are sequences of
\* one-character strings, so that the three replace calls act on characters.

Amp == <<"&", "a", "m", "p", ";">>
Lt == <<"&", "l", "t", ";">>
Gt == <<"&", "g", "t", ";">>

\* text.replace(old, new) for a one-character old
RECURSIVE Replace(_, _, _)
Replace(text, old, new) ==
    IF text = <<>> THEN <<>>
    ELSE (IF Head(text) = old THEN new ELSE <<Head(text)>>)
             \o Replace(Tail(text), old, new)

\* variant for sensitivity: the "&" replacement made last
EscapeAmpLast(text) ==
    Replace(Replace(Replace(text, "<", Lt), ">", Gt), "&", Amp)

\* .replace("&", "&amp;").replace("<", "&lt;").replace(">", "&gt;")
Escape(text) ==
    Replace(Replace(Replace(text, "&", Amp), "<", Lt), ">", Gt)

\* variant for sensitivity: no filter on visible
AllCards(cards) == cards

\* [c for c in cards if c.get("visible", True)]
VisibleCards(cards) ==
    SelectSeq(cards, LAMBDA c : IF "visible" \in DOMAIN c THEN c.visible ELSE TRUE)

\* card.get("date_display", card["date"])
DateShown(card) ==
    IF "date_display" \in DOMAIN card THEN card.date_display ELSE card.date

\* what one pass of the for loop puts into the article template
Article(card) ==
    [ id |-> card.id, title |-> Escape(card.title),
      date_display |-> DateShown(card), content |-> Escape(card.content) ]

\* the articles string: one article per visible card, appended in list order
Articles(cards) ==
    [k \in 1..Len(VisibleCards(cards)) |-> Article(VisibleCards(cards)[k])]

\* Titles and contents handed in: plain text, markup, text that already
\* reads like an entity.
RenderTitles ==
    { <<"a">>, <<"a", "&", "b">>, <<"<", "b", ">">>, <<"&", "l", "t", ";">>,
      <<"<", "&", ">">> }

RenderContents ==
    { <<"c">>, <<">", "&", "<">>, <<"&", "a", "m", "p", ";">> }

\* body.get("slug", "item") as create_card put it into the id: a plain slug,
\* and one with markup characters
RenderSlugs == { <<"i">>, <<"\"", ">", "<", "&">> }

RenderChoices ==
    [title : RenderTitles, content : RenderContents, visible : BOOLEAN,
     slug : RenderSlugs]

\* the k-th card of an input: its id is made distinct by its position and
\* ends in the slug, as f"news-{...}-{slug}" does
RenderCard(k, ch) ==
    [ id |-> <<"n", ToString(k), "-">> \o ch.slug,
      title |-> ch.title, content |-> ch.content,
      date |-> "2026-01-01", date_display |-> <<2026, 1, 1>>,
      visible |-> ch.visible, created_at |-> "2026-01-01T08:00:00" ]

\* html = generate_news_html(cards)
generate_news_html ==
    /\ rpc = "input"
    /\ page' = Articles(rcards)
    /\ rpc' = "rendered"
    /\ UNCHANGED rcards
    /\ UNCHANGED <<cardVars, pubVars, visitVars, authVars>>

\* no call of generate_news_html under way
NoPage ==
    /\ rcards = <<>>
    /\ page = <<>>
    /\ rpc = "input"

\* ------------------------------------------------------- visitor counter

\* {"total": 0, "by_os": {}, "daily": {}}
NoCounts == [k \in {} |-> 0]

DefaultStats == [total |-> 0, by_os |-> NoCounts, daily |-> NoCounts]

\* DATA_FILE before the first save_data
MissingFile == [kind |-> "missing", doc |-> DefaultStats, len |-> 0]

NoVisit ==
    [ client |-> "", today |-> "", cookie_id |-> "", visitor_id |-> "",
      last_visit |-> "", os |-> "", counted |-> FALSE ]

\* no cookie of this site in the browser, or none set by a response
NoCookies == [visitor_id |-> "", last_visit |-> ""]

NoVisitResp == [status |-> 0, counted |-> FALSE, total |-> 0, cookies |-> NoCookies]

Visitors == {"u1", "u2"}

InitVisits ==
    /\ vfile = MissingFile
    /\ vlockSH = {}
    /\ vlockEX = {}
    /\ vpc = [w \in Workers |-> "idle"]
    /\ vreq = [w \in Workers |-> NoVisit]
    /\ vdata = [w \in Workers |-> DefaultStats]
    /\ vorig = [w \in Workers |-> DefaultStats]
    /\ vflushed = [w \in Workers |-> FALSE]
    /\ vresp = [w \in Workers |-> NoVisitResp]
    /\ jar = [u \in Visitors |-> NoCookies]
    /\ clock = 1
    /\ nVisits = 0
    /\ totals = <<>>

\* datetime.now().strftime("%Y-%m-%d") on the clock's day
DayStr(d) == "2026-01-0" \o ToString(d)

\* A User-Agent header, as the set of the pattern words found in it.
UserAgentOf(u) == IF u = "u1" THEN {"Windows"} ELSE {"Linux", "Android"}

\* OS_PATTERNS, in its order
OS_PATTERNS ==
    << [os |-> "ChromeOS", words |-> {"CrOS"}],
       [os |-> "iOS", words |-> {"iPhone", "iPad", "iPod"}],
       [os |-> "Android", words |-> {"Android"}],
       [os |-> "Windows", words |-> {"Windows"}],
       [os |-> "macOS", words |-> {"Macintosh", "Mac OS X"}],
       [os |-> "Linux", words |-> {"Linux"}] >>

\* the first pattern that matches, "Other" for none or for an empty header
detect_os(ua) ==
    LET hits == { i \in DOMAIN OS_PATTERNS : OS_PATTERNS[i].words \cap ua # {} } IN
    IF ua = {} \/ hits = {}
    THEN "Other"
    ELSE OS_PATTERNS[CHOOSE i \in hits : \A j \in hits : i <= j].os

\* m.get(k, 0)
Count(m, k) == IF k \in DOMAIN m THEN m[k] ELSE 0

\* m[k] = m.get(k, 0) + 1
Bump(m, k) ==
    [x \in DOMAIN m \cup {k} |-> IF x = k THEN Count(m, k) + 1 ELSE m[x]]

\* daily.setdefault(today, {"total": 0, "by_os": {}})
DayOf(d, today) ==
    IF today \in DOMAIN d.daily THEN d.daily[today]
    ELSE [total |-> 0, by_os |-> NoCounts]

\* variant for sensitivity: lines 92-96 left out
CountVisitNoDaily(d, today, os) ==
    [d EXCEPT !.total = @ + 1, !.by_os = Bump(@, os)]

\* variant for sensitivity: the day's by_os counted under "Other"
CountVisitDayOther(d, today, os) ==
    LET day == [total |-> DayOf(d, today).total + 1,
                by_os |-> Bump(DayOf(d, today).by_os, "Other")]
    IN [ total |-> d.total + 1,
         by_os |-> Bump(d.by_os, os),
         daily |-> [x \in DOMAIN d.daily \cup {today} |->
                        IF x = today THEN day ELSE d.daily[x]] ]

\* record_visit, lines 88-96
CountVisit(d, today, os) ==
    LET day == [total |-> DayOf(d, today).total + 1,
                by_os |-> Bump(DayOf(d, today).by_os, os)]
    IN [ total |-> d.total + 1,
         by_os |-> Bump(d.by_os, os),
         daily |-> [x \in DOMAIN d.daily \cup {today} |->
                        IF x = today THEN day ELSE d.daily[x]] ]

\* json.dump(data, f, ensure_ascii=False, indent=2): bytes of the document
\* besides total's digits and the two mappings
StatsFrameLen == 41
\* bytes of one by_os entry besides its indentation, label and digits
OsEntryLen == 8
\* bytes of one daily entry besides its date, total's digits and its by_os
DayFrameLen == 50

RECURSIVE OsMapSum(_, _, _)
OsMapSum(m, keys, ind) ==
    IF keys = {} THEN 0
    ELSE LET k == CHOOSE x \in keys : TRUE IN
         ind + OsEntryLen + Len(k) + Digits(m[k]) + OsMapSum(m, keys \ {k}, ind)

\* bytes of a by_os mapping whose keys are indented by ind
OsMapLen(m, ind) ==
    IF DOMAIN m = {} THEN 2 ELSE OsMapSum(m, DOMAIN m, ind) + ind + 2

RECURSIVE DaySum(_, _)
DaySum(daily, keys) ==
    IF keys = {} THEN 0
    ELSE LET k == CHOOSE x \in keys : TRUE IN
         DayFrameLen + Len(k) + Digits(daily[k].total) + OsMapLen(daily[k].by_os, 6)
             + DaySum(daily, keys \ {k})

StatsLen(d) ==
    StatsFrameLen + Digits(d.total) + OsMapLen(d.by_os, 2)
        + (IF DOMAIN d.daily = {} THEN 2 ELSE DaySum(d.daily, DOMAIN d.daily) + 4)

StatsFile(d) == [kind |-> "doc", doc |-> d, len |-> StatsLen(d)]

\* open(DATA_FILE, "w"): creates the file or cuts it to length 0
VTruncate(f) == [kind |-> "empty", doc |-> DefaultStats, len |-> 0]

\* the document written from offset 0 into the file as it is by then
VOverwrite(f, d) ==
    IF f.len <= StatsLen(d)
    THEN StatsFile(d)
    ELSE [kind |-> "garbled", doc |-> DefaultStats, len |-> f.len]

\* the answer; a counted visit's answer sets both cookies (lines 105-106)
VReply(w, status, counted, total) ==
    /\ vresp' = [vresp EXCEPT ![w] =
                    [ status |-> status, counted |-> counted, total |-> total,
                      cookies |-> IF counted
                                  THEN [ visitor_id |-> vreq[w].visitor_id,
                                         last_visit |-> vreq[w].today ]
                                  ELSE NoCookies ]]
    /\ vpc' = [vpc EXCEPT ![w] = "done"]

\* the cookies a browser sends on the day d: what it holds, except that the
\* date marker (max_age one day, line 106) is still there on the day it was
\* set, may be gone on the day after, and is gone from then on
SentCookies(held, d) ==
    LET unmarked == [held EXCEPT !.last_visit = ""] IN
    IF held.last_visit \in {"", DayStr(d)} THEN {held}
    ELSE IF d > 1 /\ held.last_visit = DayStr(d - 1) THEN {held, unmarked}
    ELSE {unmarked}

\* variant for sensitivity: last_visit not compared with today
AlreadyCountedAnyDay(cookies, today) == cookies.visitor_id # ""

\* line 71: visitor_id and last_visit == today
AlreadyCounted(cookies, today) ==
    cookies.visitor_id # "" /\ cookies.last_visit = today

\* POST /api/visit, lines 66-87, up to load_data's open: the cookies and the
\* date are read, and load_data returns the default when the file is missing
record_visit(w) ==
    \E u \in Visitors :
      \E sent \in SentCookies(jar[u], clock) :
        LET today == DayStr(clock)
            skip == AlreadyCounted(sent, today)
            r == [ client |-> u, today |-> today,
                   cookie_id |-> sent.visitor_id,
                   visitor_id |-> IF sent.visitor_id # "" THEN sent.visitor_id
                                  ELSE "uuid-" \o ToString(nVisits + 1),
                   last_visit |-> sent.last_visit,
                   os |-> detect_os(UserAgentOf(u)),
                   counted |-> ~skip ]
        IN
        /\ vpc[w] \in {"idle", "done"}
        /\ nVisits < MaxVisits
        /\ nVisits' = nVisits + 1
        /\ vreq' = [vreq EXCEPT ![w] = r]
        /\ vdata' = [vdata EXCEPT ![w] = DefaultStats]
        /\ vorig' = [vorig EXCEPT ![w] = DefaultStats]
        /\ vflushed' = [vflushed EXCEPT ![w] = FALSE]
        /\ IF vfile.kind = "missing"
           THEN IF skip
                THEN VReply(w, 200, FALSE, 0)
                ELSE /\ vpc' = [vpc EXCEPT ![w] = "count"]
                     /\ vresp' = [vresp EXCEPT ![w] = NoVisitResp]
           ELSE /\ vpc' = [vpc EXCEPT ![w] = "load_lock"]
                /\ vresp' = [vresp EXCEPT ![w] = NoVisitResp]
        /\ UNCHANGED <<vfile, vlockSH, vlockEX, jar, clock, totals>>
        /\ UNCHANGED <<cardVars, pubVars, pageVars, authVars>>

\* load_data, line 48: flock LOCK_SH
VLoadLock(w) ==
    /\ vpc[w] = "load_lock"
    /\ vlockEX = {}
    /\ vlockSH' = vlockSH \cup {w}
    /\ vpc' = [vpc EXCEPT ![w] = "load_read"]
    /\ UNCHANGED <<vfile, vlockEX, vreq, vdata, vflushed, vresp, jar, clock,
                   nVisits, totals>>
    /\ UNCHANGED vorig
    /\ UNCHANGED <<cardVars, pubVars, pageVars, authVars>>

\* load_data, line 49: json.load, which raises on anything but a document
VLoadRead(w) ==
    /\ vpc[w] = "load_read"
    /\ IF vfile.kind = "doc"
       THEN /\ vdata' = [vdata EXCEPT ![w] = vfile.doc]
            /\ vorig' = [vorig EXCEPT ![w] = vfile.doc]
            /\ vpc' = [vpc EXCEPT ![w] = "load_unlock"]
       ELSE /\ vpc' = [vpc EXCEPT ![w] = "load_fail"]
            /\ UNCHANGED <<vdata, vorig>>
    /\ UNCHANGED <<vfile, vlockSH, vlockEX, vreq, vflushed, vresp, jar, clock,
                   nVisits, totals>>
    /\ UNCHANGED <<cardVars, pubVars, pageVars, authVars>>

\* load_data, lines 50-51; a visit already counted today is answered here
\* (lines 73-78)
VLoadUnlock(w) ==
    /\ vpc[w] = "load_unlock"
    /\ vlockSH' = vlockSH \ {w}
    /\ IF vreq[w].counted
       THEN /\ vpc' = [vpc EXCEPT ![w] = "count"]
            /\ UNCHANGED vresp
       ELSE VReply(w, 200, FALSE, vdata[w].total)
    /\ UNCHANGED <<vfile, vlockEX, vreq, vdata, vflushed, jar, clock,
                   nVisits, totals>>
    /\ UNCHANGED vorig
    /\ UNCHANGED <<cardVars, pubVars, pageVars, authVars>>

\* the exception leaves the with block, which closes the file: 500
VLoadFail(w) ==
    /\ vpc[w] = "load_fail"
    /\ vlockSH' = vlockSH \ {w}
    /\ VReply(w, 500, FALSE, 0)
    /\ UNCHANGED <<vfile, vlockEX, vreq, vdata, vflushed, jar, clock,
                   nVisits, totals>>
    /\ UNCHANGED vorig
    /\ UNCHANGED <<cardVars, pubVars, pageVars, authVars>>

\* record_visit, lines 88-96
VCount(w) ==
    /\ vpc[w] = "count"
    /\ vdata' = [vdata EXCEPT ![w] = CountVisit(@, vreq[w].today, vreq[w].os)]
    /\ vpc' = [vpc EXCEPT ![w] = "save_open"]
    /\ UNCHANGED <<vfile, vlockSH, vlockEX, vreq, vflushed, vresp, jar, clock,
                   nVisits, totals>>
    /\ UNCHANGED vorig
    /\ UNCHANGED <<cardVars, pubVars, pageVars, authVars>>

\* save_data, line 57: open(DATA_FILE, "w"), before any lock is asked for
VSaveOpen(w) ==
    /\ vpc[w] = "save_open"
    /\ vfile' = VTruncate(vfile)
    /\ vpc' = [vpc EXCEPT ![w] = "save_lock"]
    /\ UNCHANGED <<vlockSH, vlockEX, vreq, vdata, vflushed, vresp, jar, clock,
                   nVisits, totals>>
    /\ UNCHANGED vorig
    /\ UNCHANGED <<cardVars, pubVars, pageVars, authVars>>

\* save_data, line 58: flock LOCK_EX
VSaveLock(w) ==
    /\ vpc[w] = "save_lock"
    /\ vlockEX = {}
    /\ vlockSH = {}
    /\ vlockEX' = {w}
    /\ vpc' = [vpc EXCEPT ![w] = "save_dump"]
    /\ UNCHANGED <<vfile, vlockSH, vreq, vdata, vflushed, vresp, jar, clock,
                   nVisits, totals>>
    /\ UNCHANGED vorig
    /\ UNCHANGED <<cardVars, pubVars, pageVars, authVars>>

\* the bytes of this worker's document reach the file
VWriteDoc(w) ==
    /\ vfile' = VOverwrite(vfile, vdata[w])
    /\ vflushed' = [vflushed EXCEPT ![w] = TRUE]
    /\ totals' = IF vfile'.kind = "doc" THEN Append(totals, vdata[w].total)
                 ELSE totals

\* save_data, line 59: json.dump; the text stays in f's buffer or is written
\* through
VSaveDump(w) ==
    /\ vpc[w] = "save_dump"
    /\ \/ UNCHANGED <<vfile, vflushed, totals>>
       \/ VWriteDoc(w)
    /\ vpc' = [vpc EXCEPT ![w] = "save_unlock"]
    /\ UNCHANGED <<vlockSH, vlockEX, vreq, vdata, vresp, jar, clock, nVisits>>
    /\ UNCHANGED vorig
    /\ UNCHANGED <<cardVars, pubVars, pageVars, authVars>>

\* save_data, line 60: flock LOCK_UN
VSaveUnlock(w) ==
    /\ vpc[w] = "save_unlock"
    /\ vlockEX' = vlockEX \ {w}
    /\ vpc' = [vpc EXCEPT ![w] = "save_exit"]
    /\ UNCHANGED <<vfile, vlockSH, vreq, vdata, vflushed, vresp, jar, clock,
                   nVisits, totals>>
    /\ UNCHANGED vorig
    /\ UNCHANGED <<cardVars, pubVars, pageVars, authVars>>

\* the end of save_data's with block (close writes what the buffer holds),
\* then lines 100-107: the answer and the two cookies
VSaveExit(w) ==
    /\ vpc[w] = "save_exit"
    /\ IF vflushed[w]
       THEN UNCHANGED <<vfile, vflushed, totals>>
       ELSE VWriteDoc(w)
    /\ VReply(w, 200, TRUE, vdata[w].total)
    /\ jar' = [jar EXCEPT ![vreq[w].client] =
                  [visitor_id |-> vreq[w].visitor_id, last_visit |-> vreq[w].today]]
    /\ UNCHANGED <<vlockSH, vlockEX, vreq, vdata, clock, nVisits>>
    /\ UNCHANGED vorig
    /\ UNCHANGED <<cardVars, pubVars, pageVars, authVars>>

\* midnight
Tick ==
    /\ clock < MaxDays
    /\ clock' = clock + 1
    /\ UNCHANGED <<vfile, vlockSH, vlockEX, vpc, vreq, vdata, vflushed, vresp,
                   jar, nVisits, totals>>
    /\ UNCHANGED vorig
    /\ UNCHANGED <<cardVars, pubVars, pageVars, authVars>>

NextVisits ==
    \/ Tick
    \/ \E w \in Workers :
          \/ record_visit(w)
          \/ VLoadLock(w) \/ VLoadRead(w) \/ VLoadUnlock(w) \/ VLoadFail(w)
          \/ VCount(w)
          \/ VSaveOpen(w) \/ VSaveLock(w) \/ VSaveDump(w) \/ VSaveUnlock(w)
          \/ VSaveExit(w)

\* ---------------------------------------------------------- specification

\* the browser as it first comes to the site
InitSession == session = NoSession

\* the browser after the admin has logged in
LoggedIn == session = ("authenticated" :> TRUE)

InitPub ==
    /\ cardsRev = 0
    /\ htmlRev = 0
    /\ index = [html |-> 0, json |-> 0, other |-> FALSE]
    /\ head = [html |-> 0, json |-> 0]
    /\ localCommits = 0
    /\ remoteCommits = 0
    /\ untracked \in BOOLEAN
    /\ dirty = FALSE
    /\ ppc = "idle"
    /\ entry = "none"
    /\ rendered = 0
    /\ msg = ""
    /\ ran = <<>>
    /\ okStages = {}
    /\ nothingStaged = FALSE
    /\ pushTries = 0
    /\ commitsAtStart = 0
    /\ failedAt = "none"
    /\ outcome = NoOutcome
    /\ nPub = 0
    /\ nEdits = 0

NextPub ==
    \/ deploy \/ NewsLoad \/ NewsGenerate \/ NewsAdd \/ NewsCommit \/ NewsPush
    \/ PortalDeploy \/ PortalBackup \/ PortalAdd \/ PortalCommit \/ PortalPush
    \/ CardsSaved \/ create_page

\* the card routes, with the repository left alone
InitCardRoutes ==
    /\ InitCards
    /\ InitPub
    /\ ~untracked
    /\ NoPage
    /\ InitVisits
    /\ LoggedIn

SpecCards == InitCardRoutes /\ [][NextCards]_vars

\* the two deploy entry points, with no card request in progress
InitPublish ==
    /\ InitCards
    /\ file = DocFile(<<SeedCard>>)
    /\ InitPub
    /\ NoPage
    /\ InitVisits
    /\ LoggedIn

SpecPublish == InitPublish /\ [][NextPub]_vars

\* generate_news_html on every input collection
InitRender ==
    /\ InitCards
    /\ file = DocFile(<<>>)
    /\ InitPub
    /\ ~untracked
    /\ InitVisits
    /\ InitSession
    /\ \E n \in 0..MaxCards :
          \E f \in [1..n -> RenderChoices] :
             rcards = [k \in 1..n |-> RenderCard(k, f[k])]
    /\ page = <<>>
    /\ rpc = "input"

NextRender == generate_news_html

\* the visitor counter, with the card store and the repository left alone
InitVisitRoutes ==
    /\ InitCards
    /\ file = DocFile(<<>>)
    /\ InitPub
    /\ ~untracked
    /\ NoPage
    /\ InitVisits
    /\ InitSession

SpecVisits == InitVisitRoutes /\ [][NextVisits]_vars

SpecRender == InitRender /\ [][NextRender]_vars

\* the session routes, the card routes and deploy, from a browser that has
\* not logged in
InitAuth ==
    /\ InitCards
    /\ file = DocFile(<<SeedCard>>)
    /\ InitPub
    /\ ~untracked
    /\ NoPage
    /\ InitVisits
    /\ InitSession

\* the browser's requests come one after another: one worker answers them;
\* the working tree is as committed, so git commit has nothing staged and
\* deploy ends before git push
NextAuth ==
    \/ deploy \/ NewsLoad \/ NewsGenerate \/ NewsAdd \/ NewsCommit
    \/ \E w \in {"A"} :
        \/ login(w) \/ logout(w) \/ index_route(w) \/ manager(w)
        \/ create_card(w) \/ update_card(w) \/ delete_card(w)
        \/ toggle_card(w) \/ get_cards(w)
        \/ LoadLock(w) \/ LoadRead(w) \/ LoadUnlock(w) \/ LoadFail(w)
        \/ CreateInsert(w) \/ UpdateApply(w) \/ DeleteFilter(w)
        \/ ToggleFlip(w) \/ GetReturn(w)
        \/ SaveOpen(w) \/ SaveLock(w) \/ SaveDump(w) \/ SaveUnlock(w)
        \/ SaveExit(w) \/ SaveFail(w)

SpecAuth == InitAuth /\ [][NextAuth]_vars

\* ---------------------------------------------------------- publish claims

\* the stages of each entry point, in the order the spec gives them
Pipeline(e) ==
    IF e = "news"
    THEN <<"generate", "stage", "commit", "push">>
    ELSE <<"stage", "commit", "push">>

\* C6: the stages a publish call has started are an initial part of its
\* pipeline, in order, and every stage before the last started one succeeded.
C6_StagesInOrder ==
    /\ Len(ran) <= Len(Pipeline(entry))
    /\ \A i \in 1..Len(ran) : ran[i] = Pipeline(entry)[i]
    /\ \A i \in 1..(Len(ran) - 1) : ran[i] \in okStages

\* C6 witness: a deploy ended after git add failed, with neither commit nor
\* push started and the repository as it was.
C6_Witness ==
    /\ ppc = "done" /\ entry = "news"
    /\ ran = <<"generate", "stage">> /\ failedAt = "stage"
    /\ localCommits = commitsAtStart /\ pushTries = 0

\* the caller-visible outcome says "done, no changes"
IsNoChanges(o) ==
    /\ o.status = 200
    /\ "message" \in DOMAIN o.body
    /\ o.body["message"] = <<"no changes">>

\* the caller-visible outcome says "applied"
IsApplied(o) ==
    \/ /\ o.status = 200
       /\ "message" \in DOMAIN o.body
       /\ o.body["message"][1] = "deploy done"
    \/ o = PortalReturn("True")

\* the caller-visible outcome says "failed"
IsFailed(o) ==
    \/ o.status = 500 /\ "error" \in DOMAIN o.body
    \/ o = PortalReturn("False")

\* the stage a failed outcome names to the caller, "none" if it names none
StageNamed(o) ==
    IF "error" \notin DOMAIN o.body THEN "none"
    ELSE IF o.body["error"][1] = "git commit failed" THEN "commit"
    ELSE IF o.body["error"][1] = "git push failed" THEN "push"
    ELSE IF Contains(o.body["error"], <<"git", "add">>) THEN "stage"
    ELSE "none"

\* C7: a publish call whose git commit found nothing staged ends with the
\* "no changes" success outcome, whichever entry point ran it.
C7_NothingToCommitIsNoChanges ==
    (ppc = "done" /\ nothingStaged) => IsNoChanges(outcome)

\* C8: when git push fails after a successful commit, the call ends as a
\* failure, the commit it made is still in the local repository and not in
\* the remote, and git push ran once.
C8_PushFailureKeepsCommit ==
    (ppc = "done" /\ failedAt = "push") =>
        /\ IsFailed(outcome)
        /\ ~IsApplied(outcome) /\ ~IsNoChanges(outcome)
        /\ localCommits = commitsAtStart + 1
        /\ head = [html |-> index.html, json |-> index.json]
        /\ remoteCommits < localCommits
        /\ pushTries = 1

\* C8 witness: a deploy of the news manager ended with 500 after its push
\* failed, one commit ahead of the remote.
C8_Witness ==
    /\ ppc = "done" /\ entry = "news" /\ failedAt = "push"
    /\ outcome.status = 500
    /\ "commit" \in okStages
    /\ localCommits = remoteCommits + 1

\* C9: every finished publish call has one of the three outcomes, and a
\* failed outcome names the stage that failed.
C9_ThreeOutcomes ==
    ppc = "done" =>
        \/ IsApplied(outcome) /\ failedAt = "none" /\ ~nothingStaged
        \/ IsNoChanges(outcome) /\ failedAt = "none"
        \/ IsFailed(outcome) /\ failedAt # "none" /\ StageNamed(outcome) = failedAt


\* C26: a commit made by a deploy call holds news.html as rendered from the
\* data/news.json committed with it, whatever card handlers saved meanwhile.
C26_CommitIsConsistent ==
    (entry = "news" /\ "commit" \in okStages) => head.html = head.json

\* C27: when a publish call has returned success (applied, or no changes),
\* the remote has every commit of the local repository.
C27_SuccessMeansDelivered ==
    (ppc = "done" /\ (IsApplied(outcome) \/ IsNoChanges(outcome)))
        => remoteCommits = localCommits

\* ----------------------------------------------------------- session claims

\* the routes behind login_required that workers answer
GatedOps == {"create", "update", "delete", "toggle", "get", "manager"}

\* every request to a card route or to /manager that came without an
\* authenticated session has been answered at once, with 401 if it is
\* API-style and with a redirect to the login page otherwise: the worker was
\* never inside load_cards, save_cards or the route's body
RoutesGated ==
    \A w \in Workers :
        (req[w].op \in GatedOps /\ ~req[w].auth) =>
            /\ pc[w] = "done"
            /\ resp[w] =
                  IF req[w].op # "manager" \/ req[w].is_json
                  THEN [status |-> 401, cards |-> <<>>, to |-> ""]
                  ELSE [status |-> 302, cards |-> <<>>, to |-> "login"]

\* a deploy request arriving without an authenticated session is answered
\* 401 in the same step, with no stage run and the repository untouched
DeployGated ==
    (nPub' = nPub + 1 /\ entry' = "news" /\ ~Authenticated(session)) =>
        /\ ppc' = "done"
        /\ outcome'.status = 401
        /\ ran' = <<>>
        /\ UNCHANGED repoVars

\* a session becomes authenticated only by a POST to /login whose password
\* has the digest ADMIN_HASH
OnlyLoginGrants ==
    (Authenticated(session') /\ ~Authenticated(session)) =>
        \E w \in Workers :
            /\ pc[w] \in {"idle", "done"} /\ pc'[w] = "done"
            /\ req'[w].op = "login" /\ req'[w].id = "POST"
            /\ Sha256Hex(req'[w].body["password"]) = ADMIN_HASH

\* a request to /logout leaves the session unauthenticated
LogoutRevokes ==
    \A w \in Workers :
        (req'[w].op = "logout" /\ req'[w] # req[w]) => ~Authenticated(session')

\* C23: requests to the card routes, to /manager and to deploy that come
\* without an authenticated session are answered 401 (API-style) or with a
\* redirect to the login page, and read, write and publish nothing; only a
\* login with the matching password hash authenticates the session, and
\* logout ends that.
C23_GateAndSession ==
    /\ []RoutesGated
    /\ [][DeployGated /\ OnlyLoginGrants /\ LogoutRevokes]_vars

\* C23 witness: after a login, a card write and a logout, a delete request
\* was answered 401 with its card still in the file.
C23_Witness ==
    /\ ~Authenticated(session)
    /\ ver > 0
    /\ \E w \in Workers :
          /\ pc[w] = "done" /\ ~req[w].auth /\ req[w].op = "delete"
          /\ resp[w].status = 401
          /\ file.kind = "doc" /\ req[w].id \in Ids(file.cards)

\* ----------------------------------------------------------- render claims

\* positions of the input's visible cards
VisibleAt(cards) == { i \in DOMAIN cards : cards[i].visible }

\* the input card an article was made from (ids of an input are distinct)
CardOf(k) == rcards[CHOOSE i \in DOMAIN rcards : rcards[i].id = page[k].id]

\* C17: the page has as many articles as the input has visible cards; every
\* visible card has an article, no hidden card has one, and the articles
\* follow the order of their cards in the input.
C17_VisibleOnlyInOrder ==
    rpc = "rendered" =>
        /\ Len(page) = Cardinality(VisibleAt(rcards))
        /\ \A i \in DOMAIN rcards :
              IF rcards[i].visible
              THEN \E k \in DOMAIN page : page[k].id = rcards[i].id
              ELSE \A k \in DOMAIN page : page[k].id # rcards[i].id
        /\ \A k1, k2 \in DOMAIN page :
              k1 < k2 =>
                 \E i1, i2 \in VisibleAt(rcards) :
                    /\ i1 < i2
                    /\ rcards[i1].id = page[k1].id
                    /\ rcards[i2].id = page[k2].id

\* C17 witness: a hidden card ahead of a visible one gave a page whose only
\* article is the visible card's.
C17_Witness ==
    /\ rpc = "rendered"
    /\ Len(rcards) >= 2
    /\ ~rcards[1].visible /\ rcards[2].visible
    /\ Len(page) >= 1 /\ page[1].id = rcards[2].id

\* one character as it must appear in the page
Entity(ch) ==
    CASE ch = "&" -> Amp
      [] ch = "<" -> Lt
      [] ch = ">" -> Gt
      [] OTHER -> <<ch>>

\* every character of the text replaced once
RECURSIVE EscapedOnce(_)
EscapedOnce(text) ==
    IF text = <<>> THEN <<>> ELSE Entity(Head(text)) \o EscapedOnce(Tail(text))

HasChar(text, ch) == \E i \in DOMAIN text : text[i] = ch

\* C18: the title and the content of every article are those of its card with
\* each "&", "<" and ">" replaced once by its entity, and hold no "<" or ">".
C18_EscapedOnce ==
    rpc = "rendered" =>
        \A k \in DOMAIN page :
            /\ page[k].title = EscapedOnce(CardOf(k).title)
            /\ page[k].content = EscapedOnce(CardOf(k).content)
            /\ ~HasChar(page[k].title, "<") /\ ~HasChar(page[k].title, ">")
            /\ ~HasChar(page[k].content, "<") /\ ~HasChar(page[k].content, ">")

\* C18 witness: a visible card titled "<&>" is on the page as "&lt;&amp;&gt;".
C18_Witness ==
    /\ rpc = "rendered"
    /\ \E k \in DOMAIN page :
          /\ CardOf(k).title = <<"<", "&", ">">>
          /\ page[k].title = Lt \o Amp \o Gt
          /\ CardOf(k).content = <<"&", "a", "m", "p", ";">>
          /\ page[k].content = Amp \o <<"a", "m", "p", ";">>


Quot == <<"&", "q", "u", "o", "t", ";">>

\* the "&" at position i of the text begins one of the entities
BeginsEntity(text, i) ==
    \E e \in {Amp, Lt, Gt, Quot} :
        /\ i + Len(e) - 1 <= Len(text)
        /\ SubSeq(text, i, i + Len(e) - 1) = e

\* no "<", ">" or double quote, and "&" only as the start of an entity
NoRawMarkup(text) ==
    /\ ~HasChar(text, "<") /\ ~HasChar(text, ">") /\ ~HasChar(text, "\"")
    /\ \A i \in DOMAIN text : text[i] = "&" => BeginsEntity(text, i)

\* C28: in every article the card id, inside its data-news-id attribute, has
\* no raw "<", ">", "&" or double quote, and the title and the content have
\* no raw "<", ">" or "&".
C28_IdIsEscaped ==
    rpc = "rendered" =>
        \A k \in DOMAIN page :
            /\ NoRawMarkup(page[k].id)
            /\ ~HasChar(page[k].title, "<") /\ ~HasChar(page[k].title, ">")
            /\ \A i \in DOMAIN page[k].title :
                  page[k].title[i] = "&" => BeginsEntity(page[k].title, i)
            /\ ~HasChar(page[k].content, "<") /\ ~HasChar(page[k].content, ">")
            /\ \A i \in DOMAIN page[k].content :
                  page[k].content[i] = "&" => BeginsEntity(page[k].content, i)

\* ---------------------------------------------------------- visitor claims

RECURSIVE SumDaily(_, _)
SumDaily(daily, keys) ==
    IF keys = {} THEN 0
    ELSE LET k == CHOOSE x \in keys : TRUE IN
         daily[k].total + SumDaily(daily, keys \ {k})

TotalIsSumOfDays(d) == d.total = SumDaily(d.daily, DOMAIN d.daily)

\* positions of record_visit from the counting to the answer
VSavePcs == {"save_open", "save_lock", "save_dump", "save_unlock", "save_exit"}

\* C19: in every document in the stats file, and in every document handed to
\* save_data, total is the sum of the totals of the days recorded.
C19_TotalIsSumOfDaily ==
    /\ vfile.kind = "doc" => TotalIsSumOfDays(vfile.doc)
    /\ \A w \in Workers : vpc[w] \in VSavePcs => TotalIsSumOfDays(vdata[w])

\* C19 witness: the third document written holds two days and a total of at
\* least 2.
C19_Witness ==
    /\ vfile.kind = "doc"
    /\ Len(totals) = 3
    /\ Cardinality(DOMAIN vfile.doc.daily) = 2
    /\ vfile.doc.total >= 2

\* C20: each document written to the stats file stores a total at least as
\* large as that of the document written before it.
C20_TotalNeverDecreases ==
    \A i \in DOMAIN totals : i > 1 => totals[i - 1] <= totals[i]

\* the request was answered by record_visit itself
VAnswered(w) == vpc[w] = "done" /\ vresp[w].status = 200

OsLabels == { OS_PATTERNS[i].os : i \in DOMAIN OS_PATTERNS } \cup {"Other"}

\* m2 is m with the count of label k one higher and nothing else changed
OneMore(m, m2, k) ==
    /\ DOMAIN m2 = DOMAIN m \cup {k}
    /\ \A x \in DOMAIN m2 :
          m2[x] = (IF x \in DOMAIN m THEN m[x] ELSE 0) + (IF x = k THEN 1 ELSE 0)

\* new is old with one visit of the label added on the day
OneVisitMore(old, new, today, label) ==
    /\ new.total = old.total + 1
    /\ OneMore(old.by_os, new.by_os, label)
    /\ DOMAIN new.daily = DOMAIN old.daily \cup {today}
    /\ \A d \in DOMAIN old.daily : d # today => new.daily[d] = old.daily[d]
    /\ new.daily[today].total =
           (IF today \in DOMAIN old.daily THEN old.daily[today].total ELSE 0) + 1
    /\ OneMore(IF today \in DOMAIN old.daily THEN old.daily[today].by_os ELSE NoCounts,
               new.daily[today].by_os, label)

\* C25: the document a counted visit hands to save_data, written by one
\* write, is the document it loaded with one visit of one label added on the
\* request's day; a visit that is not counted never gets to save_data and
\* writes nothing.
C25_OneVisitOneWrite ==
    \A w \in Workers :
        /\ (vreq[w].counted /\ (vpc[w] \in VSavePcs \/ VAnswered(w))) =>
              /\ \E label \in OsLabels :
                    OneVisitMore(vorig[w], vdata[w], vreq[w].today, label)
              /\ VAnswered(w) => vflushed[w]
        /\ (vreq[w].client # "" /\ ~vreq[w].counted) =>
              /\ vpc[w] \notin VSavePcs \cup {"count"}
              /\ ~vflushed[w]
              /\ vdata[w] = vorig[w]

\* C25 witness: a counted Android visit, on a day that had a Windows visit,
\* was answered and its document is the one in the file.
C25_Witness ==
    \E w \in Workers :
        /\ VAnswered(w) /\ vresp[w].counted
        /\ vreq[w].os = "Android"
        /\ vreq[w].today \in DOMAIN vorig[w].daily
        /\ "Windows" \in DOMAIN vorig[w].daily[vreq[w].today].by_os
        /\ vfile = StatsFile(vdata[w])

====
